---- MODULE Spec2Model ----
(***************************************************************************)
(* Model of src/dir_entry.rs: the DirEntry value (a walked entry or a      *)
(* broken symlink), its lazily cached metadata and its match recording.    *)
(* Strings are sequences of bytes (integers 0..255); a path is a sequence  *)
(* of components; a compiled pattern is a small regular-expression tree    *)
(* run with leftmost-first semantics.                                      *)
(***************************************************************************)
EXTENDS Integers, Sequences, FiniteSets, TLC

(* ---------------------------------------------------------------------- *)
(* Option<T>: None is the empty tuple, Some(x) the one-element tuple.      *)
(* ---------------------------------------------------------------------- *)
None == <<>>
Some(x) == <<x>>
IsSome(o) == Len(o) > 0
Unwrap(o) == o[1]

(* ---------------------------------------------------------------------- *)
(* Bytes and text.                                                         *)
(* ---------------------------------------------------------------------- *)
Ascii ==
  [c \in {"/", ".", " ", "_", "0", "1", "2", "3", "4", "5", "6", "7", "8", "9",
          "a", "b", "c", "d", "e", "f", "m", "o", "p", "r", "t", "w", "x"} |->
     CASE c = " " -> 32 [] c = "." -> 46 [] c = "/" -> 47 [] c = "_" -> 95
       [] c = "0" -> 48 [] c = "1" -> 49 [] c = "2" -> 50 [] c = "3" -> 51
       [] c = "4" -> 52 [] c = "5" -> 53 [] c = "6" -> 54 [] c = "7" -> 55
       [] c = "8" -> 56 [] c = "9" -> 57
       [] c = "a" -> 97 [] c = "b" -> 98 [] c = "c" -> 99 [] c = "d" -> 100
       [] c = "e" -> 101 [] c = "f" -> 102 [] c = "m" -> 109 [] c = "o" -> 111
       [] c = "p" -> 112 [] c = "r" -> 114 [] c = "t" -> 116 [] c = "w" -> 119
       [] c = "x" -> 120]

\* The bytes of an ASCII literal written as a tuple of one-character strings.
Lit(cs) == [i \in DOMAIN cs |-> Ascii[cs[i]]]

Slice(s, from, to) == [i \in 1..(to - from) |-> s[from + i]]

IsCont(b) == b >= 128 /\ b <= 191

\* Length of the well-formed UTF-8 sequence that starts at s[i], 0 if none
\* (the validation String::from_utf8 performs).
Utf8SeqLen(s, i) ==
  LET n == Len(s)
      b0 == s[i]
      c(k) == IF i + k <= n THEN s[i + k] ELSE 0
  IN  IF b0 < 128 THEN 1
      ELSE IF b0 >= 194 /\ b0 <= 223 THEN (IF IsCont(c(1)) THEN 2 ELSE 0)
      ELSE IF b0 = 224
        THEN (IF c(1) >= 160 /\ c(1) <= 191 /\ IsCont(c(2)) THEN 3 ELSE 0)
      ELSE IF b0 = 237
        THEN (IF c(1) >= 128 /\ c(1) <= 159 /\ IsCont(c(2)) THEN 3 ELSE 0)
      ELSE IF b0 >= 225 /\ b0 <= 239
        THEN (IF IsCont(c(1)) /\ IsCont(c(2)) THEN 3 ELSE 0)
      ELSE IF b0 = 240
        THEN (IF c(1) >= 144 /\ c(1) <= 191 /\ IsCont(c(2)) /\ IsCont(c(3))
              THEN 4 ELSE 0)
      ELSE IF b0 >= 241 /\ b0 <= 243
        THEN (IF IsCont(c(1)) /\ IsCont(c(2)) /\ IsCont(c(3)) THEN 4 ELSE 0)
      ELSE IF b0 = 244
        THEN (IF c(1) >= 128 /\ c(1) <= 143 /\ IsCont(c(2)) /\ IsCont(c(3))
              THEN 4 ELSE 0)
      ELSE 0

RECURSIVE ValidUtf8From(_, _)
ValidUtf8From(s, i) ==
  IF i > Len(s) THEN TRUE
  ELSE LET k == Utf8SeqLen(s, i)
       IN  IF k = 0 THEN FALSE ELSE ValidUtf8From(s, i + k)

\* Decoding that replaces what is not text by U+FFFD instead of failing.
from_utf8_lossy(bytes) ==
  IF ValidUtf8From(bytes, 1) THEN Some(bytes) ELSE Some(<<239, 191, 189>>)

\* String::from_utf8(cap.to_vec()): Some(text) with the same bytes, or None
\* (the Err the code unwraps).
from_utf8(bytes) == IF ValidUtf8From(bytes, 1) THEN Some(bytes) ELSE None

(* ---------------------------------------------------------------------- *)
(* Paths: a sequence of components, compared component by component.       *)
(* ---------------------------------------------------------------------- *)
RootDir == [kind |-> "RootDir", name |-> <<>>]
ParentDir == [kind |-> "ParentDir", name |-> Lit(<<".", ".">>)]
NormalComp(n) == [kind |-> "Normal", name |-> n]

\* Position of a component's variant in the Component enum.
Rank(c) == CASE c.kind = "RootDir" -> 1 [] c.kind = "ParentDir" -> 3 [] OTHER -> 4

RECURSIVE CmpBytes(_, _, _)
CmpBytes(s, t, i) ==
  IF i > Len(s) /\ i > Len(t) THEN "Equal"
  ELSE IF i > Len(s) THEN "Less"
  ELSE IF i > Len(t) THEN "Greater"
  ELSE IF s[i] < t[i] THEN "Less"
  ELSE IF s[i] > t[i] THEN "Greater"
  ELSE CmpBytes(s, t, i + 1)

CmpComponent(c, d) ==
  IF Rank(c) < Rank(d) THEN "Less"
  ELSE IF Rank(c) > Rank(d) THEN "Greater"
  ELSE IF c.kind = "Normal" THEN CmpBytes(c.name, d.name, 1)
  ELSE "Equal"

\* Path::cmp: lexicographic over the components.
RECURSIVE CmpPath(_, _, _)
CmpPath(p, q, i) ==
  IF i > Len(p) /\ i > Len(q) THEN "Equal"
  ELSE IF i > Len(p) THEN "Less"
  ELSE IF i > Len(q) THEN "Greater"
  ELSE LET r == CmpComponent(p[i], q[i])
       IN  IF r = "Equal" THEN CmpPath(p, q, i + 1) ELSE r

\* Path::file_name: the last component when it is a normal one.
file_name(p) ==
  IF Len(p) > 0 /\ p[Len(p)].kind = "Normal" THEN Some(p[Len(p)].name) ELSE None

is_absolute(p) == Len(p) > 0 /\ p[1].kind = "RootDir"

\* Path::as_os_str: the components joined with the separator.
RECURSIVE as_os_str(_, _, _)
as_os_str(p, i, acc) ==
  IF i > Len(p) THEN acc
  ELSE IF p[i].kind = "RootDir" THEN as_os_str(p, i + 1, Lit(<<"/">>))
  ELSE LET sep == IF Len(acc) > 0 /\ acc[Len(acc)] # Ascii["/"]
                  THEN Lit(<<"/">>) ELSE <<>>
       IN  as_os_str(p, i + 1, acc \o sep \o p[i].name)

\* The process's working directory.
Cwd == <<RootDir, NormalComp(Lit(<<"w">>))>>

\* filesystem::path_absolute_form: an absolute path unchanged, a relative one
\* joined to the working directory; an Err when the working directory cannot
\* be read.
path_absolute_form(p, cwdOk) ==
  IF is_absolute(p) THEN Some(p)
  ELSE IF cwdOk THEN Some(Cwd \o p)
  ELSE None

\* filesystem::osstr_to_bytes: the bytes of the platform string, borrowed as
\* they are (an OsStr is a byte string here).
osstr_to_bytes(s) == s

(* ---------------------------------------------------------------------- *)
(* Compiled patterns (regex::bytes::Regex): a tree over byte classes, run  *)
(* by backtracking in priority order (leftmost-first).                     *)
(* ---------------------------------------------------------------------- *)
Class(S) == [t |-> "set", set |-> S, i |-> 0, kids |-> <<>>]
Byte(c) == Class({Ascii[c]})
Cat(ks) == [t |-> "cat", set |-> {}, i |-> 0, kids |-> ks]
Grp(g, k) == [t |-> "grp", set |-> {}, i |-> g, kids |-> <<k>>]
Opt(k) == [t |-> "opt", set |-> {}, i |-> 0, kids |-> <<k>>]
Plus(k) == [t |-> "plus", set |-> {}, i |-> 0, kids |-> <<k>>]
Star(k) == [t |-> "star", set |-> {}, i |-> 0, kids |-> <<k>>]

Digit == Ascii["0"]..Ascii["9"]
Word == Digit \cup (65..90) \cup (97..122) \cup {Ascii["_"]}
HighBytes == 128..255

\* The ways `n` can match s starting after `pos` bytes, best first; each is the
\* offset where the match ends and the spans of the groups set so far.
RECURSIVE Run(_, _, _, _)
RECURSIVE RunCat(_, _, _, _, _)
RECURSIVE Then(_, _, _, _, _)
RECURSIVE RunPlus(_, _, _, _, _)
Run(n, s, pos, caps) ==
  CASE n.t = "set" ->
         IF pos < Len(s) /\ s[pos + 1] \in n.set
         THEN <<[end |-> pos + 1, caps |-> caps]>> ELSE <<>>
    [] n.t = "cat" -> RunCat(n.kids, 1, s, pos, caps)
    [] n.t = "grp" ->
         LET rs == Run(n.kids[1], s, pos, caps)
         IN  [j \in DOMAIN rs |->
                [end |-> rs[j].end,
                 caps |-> [rs[j].caps EXCEPT ![n.i] = Some(<<pos, rs[j].end>>)]]]
    [] n.t = "opt" ->
         Run(n.kids[1], s, pos, caps) \o <<[end |-> pos, caps |-> caps]>>
    [] n.t = "plus" ->
         RunPlus(n.kids[1], s, Run(n.kids[1], s, pos, caps), 1, pos)
    [] n.t = "star" ->
         RunPlus(n.kids[1], s, Run(n.kids[1], s, pos, caps), 1, pos)
           \o <<[end |-> pos, caps |-> caps]>>

RunCat(kids, k, s, pos, caps) ==
  IF k > Len(kids) THEN <<[end |-> pos, caps |-> caps]>>
  ELSE Then(Run(kids[k], s, pos, caps), 1, kids, k + 1, s)

Then(rs, j, kids, k, s) ==
  IF j > Len(rs) THEN <<>>
  ELSE RunCat(kids, k, s, rs[j].end, rs[j].caps) \o Then(rs, j + 1, kids, k, s)

RunPlus(kid, s, rs, j, pos) ==
  IF j > Len(rs) THEN <<>>
  ELSE (IF rs[j].end > pos
        THEN RunPlus(kid, s, Run(kid, s, rs[j].end, rs[j].caps), 1, rs[j].end)
        ELSE <<>>)
       \o <<rs[j]>> \o RunPlus(kid, s, rs, j + 1, pos)

NoCaps(re) == [g \in 0..(re.groups - 1) |-> None]

\* The leftmost match starting at offset `from` or later: its span and its
\* groups (group 0 is the whole match).
RECURSIVE FindAt(_, _, _)
FindAt(re, s, from) ==
  IF from > Len(s) THEN None
  ELSE LET rs == Run(re.ast, s, from, NoCaps(re))
       IN  IF Len(rs) > 0
           THEN Some([start |-> from, end |-> rs[1].end,
                      caps |-> [rs[1].caps EXCEPT ![0] = Some(<<from, rs[1].end>>)]])
           ELSE FindAt(re, s, from + 1)

\* Regex::captures_iter: the successive non-overlapping matches; an empty
\* match that ends where the previous match ended is skipped.
RECURSIVE CapturesFrom(_, _, _, _)
CapturesFrom(re, s, from, lastEnd) ==
  LET m0 == FindAt(re, s, from)
      m  == IF IsSome(m0) /\ Unwrap(m0).start = Unwrap(m0).end
               /\ Unwrap(m0).end = lastEnd
            THEN FindAt(re, s, from + 1) ELSE m0
  IN  IF IsSome(m)
      THEN <<Unwrap(m)>> \o CapturesFrom(re, s, Unwrap(m).end, Unwrap(m).end)
      ELSE <<>>

captures_iter(re, s) == CapturesFrom(re, s, 0, -1)

(* ---------------------------------------------------------------------- *)
(* The inputs: walker paths, compiled patterns, lookup outcomes.           *)
(* ---------------------------------------------------------------------- *)
MaxDepth == 1

EAcute == <<195, 169>>
Paths ==
  { <<NormalComp(EAcute),
      NormalComp(Lit(<<"r", "e", "p", "o", "r", "t", ".", "t", "x", "t">>))>>,
    <<NormalComp(EAcute), NormalComp(<<255>>),
      NormalComp(Lit(<<"r", "e", "p", "o", "r", "t", ".", "m", "d">>))>>,
    <<RootDir, NormalComp(Lit(<<"a", "c", " ", "a", "b", "c">>)),
      NormalComp(Lit(<<"a", "1", "2", " ", "b", "3", "4">>))>>,
    <<RootDir>>,
    <<NormalComp(Lit(<<"f", "o", "o">>)), ParentDir>> }

PairPaths ==
  { <<NormalComp(Lit(<<"x">>))>>,
    <<NormalComp(Lit(<<"w">>)), NormalComp(Lit(<<"x">>))>> }

\* (\w+)\.txt   \d+   a(b)?c   (?-u)[\x80-\xFF]+   b*
Regexes ==
  << [ast |-> Cat(<<Grp(1, Plus(Class(Word))), Byte("."), Byte("t"), Byte("x"),
                    Byte("t")>>), groups |-> 2],
     [ast |-> Plus(Class(Digit)), groups |-> 1],
     [ast |-> Cat(<<Byte("a"), Opt(Grp(1, Byte("b"))), Byte("c")>>), groups |-> 2],
     [ast |-> Plus(Class(HighBytes)), groups |-> 1],
     [ast |-> Star(Byte("b")), groups |-> 1] >>

FileTypes == {"file", "symlink"}
Metadatas == [file_type : FileTypes]

\* What a metadata lookup can give after .ok(): nothing, or the metadata.
LookupResults == {None} \cup {Some(m) : m \in Metadatas}

\* The handles the walker hands over (ignore::DirEntry).
WalkerEntries == [path : Paths, depth : 0..MaxDepth, ty : {None, Some("file")}]

(* ---------------------------------------------------------------------- *)
(* DirEntry.                                                               *)
(* ---------------------------------------------------------------------- *)
EmptyMap == <<>>
Insert(m, k, v) == (k :> v) @@ m
MapLen(m) == Cardinality(DOMAIN m)

normal(e) ==
  [inner |-> [variant |-> "Normal", payload |-> e],
   metadata |-> <<>>, match_list |-> EmptyMap]

broken_symlink(p) ==
  [inner |-> [variant |-> "BrokenSymlink", payload |-> p],
   metadata |-> <<>>, match_list |-> EmptyMap]

path(d) ==
  IF d.inner.variant = "Normal" THEN d.inner.payload.path ELSE d.inner.payload

matches(d) == d.match_list

\* A depth that defaults to 0 where the walker gave none.
depth_or_zero(d) ==
  IF d.inner.variant = "Normal" THEN Some(d.inner.payload.depth) ELSE Some(0)

depth(d) ==
  IF d.inner.variant = "Normal" THEN Some(d.inner.payload.depth) ELSE None

\* A cell that keeps a successful lookup only, and looks up again after a
\* failure.
get_or_init_retry_failed(cell, looked_up) ==
  IF cell = <<>> \/ cell = <<None>> THEN [cell |-> <<looked_up>>, ran |-> TRUE]
  ELSE [cell |-> cell, ran |-> FALSE]

\* OnceCell::get_or_init: the closure runs only on an empty cell.
get_or_init(cell, looked_up) ==
  IF cell = <<>> THEN [cell |-> <<looked_up>>, ran |-> TRUE]
  ELSE [cell |-> cell, ran |-> FALSE]

\* metadata(): the cell after the call, the lookup performed if any, and the
\* returned Option<&Metadata>.
metadata(d, looked_up) ==
  LET r == get_or_init(d.metadata, looked_up)
      how == IF d.inner.variant = "Normal" THEN "entry_metadata"
             ELSE "symlink_metadata"
  IN  [entry |-> [d EXCEPT !.metadata = r.cell],
       lookups |-> IF r.ran THEN <<[how |-> how, result |-> looked_up]>> ELSE <<>>,
       val |-> r.cell[1]]

\* A file_type that asks the metadata whatever the variant.
file_type_via_metadata(d, looked_up) ==
  LET m == metadata(d, looked_up)
  IN  [entry |-> m.entry, lookups |-> m.lookups,
       val |-> IF IsSome(m.val) THEN Some(Unwrap(m.val).file_type) ELSE None]

file_type(d, looked_up) ==
  IF d.inner.variant = "Normal"
  THEN [entry |-> d, lookups |-> <<>>, val |-> d.inner.payload.ty]
  ELSE LET m == metadata(d, looked_up)
       IN  [entry |-> m.entry, lookups |-> m.lookups,
            val |-> IF IsSome(m.val) THEN Some(Unwrap(m.val).file_type) ELSE None]

\* A search string that falls back to the whole path when there is no file
\* name.
get_search_str_lenient(d, search_full_path, cwdOk) ==
  IF search_full_path
  THEN (IF IsSome(path_absolute_form(path(d), cwdOk))
        THEN Some(as_os_str(Unwrap(path_absolute_form(path(d), cwdOk)), 1, <<>>))
        ELSE None)
  ELSE IF IsSome(file_name(path(d))) THEN file_name(path(d))
  ELSE Some(as_os_str(path(d), 1, <<>>))

\* get_search_str: Some(search string), or None where the code panics.
get_search_str(d, search_full_path, cwdOk) ==
  LET entry_path == path(d)
  IN  IF search_full_path
      THEN LET path_abs_buf == path_absolute_form(entry_path, cwdOk)
           IN  IF IsSome(path_abs_buf)
               THEN Some(as_os_str(Unwrap(path_abs_buf), 1, <<>>))
               ELSE None
      ELSE file_name(entry_path)

\* A group loop that keeps the subgroups only and drops the whole match.
RECURSIVE matched_groups_subgroups_only(_, _, _, _, _)
matched_groups_subgroups_only(caps, s, group, ngroups, acc) ==
  IF group >= ngroups THEN Some(acc)
  ELSE IF group > 0 /\ IsSome(caps[group])
    THEN LET text == from_utf8(Slice(s, Unwrap(caps[group])[1], Unwrap(caps[group])[2]))
         IN  IF IsSome(text)
             THEN matched_groups_subgroups_only(caps, s, group + 1, ngroups,
                                                Insert(acc, group, Unwrap(text)))
             ELSE None
    ELSE matched_groups_subgroups_only(caps, s, group + 1, ngroups, acc)

\* A group loop that stores an empty string for a group that took no part.
RECURSIVE matched_groups_absent_as_empty(_, _, _, _, _)
matched_groups_absent_as_empty(caps, s, group, ngroups, acc) ==
  IF group >= ngroups THEN Some(acc)
  ELSE LET text == IF IsSome(caps[group])
                   THEN from_utf8(Slice(s, Unwrap(caps[group])[1],
                                        Unwrap(caps[group])[2]))
                   ELSE Some(<<>>)
       IN  IF IsSome(text)
           THEN matched_groups_absent_as_empty(caps, s, group + 1, ngroups,
                                               Insert(acc, group, Unwrap(text)))
           ELSE None

\* The inner loop of is_match over the groups of one occurrence: Some(map),
\* or None where unwrap() panics.
RECURSIVE matched_groups(_, _, _, _, _)
matched_groups(caps, s, group, ngroups, acc) ==
  IF group >= ngroups THEN Some(acc)
  ELSE IF IsSome(caps[group])
    THEN LET value == Unwrap(caps[group])
             text == from_utf8(Slice(s, value[1], value[2]))
         IN  IF IsSome(text)
             THEN matched_groups(caps, s, group + 1, ngroups,
                                 Insert(acc, group, Unwrap(text)))
             ELSE None
    ELSE matched_groups(caps, s, group + 1, ngroups, acc)

\* The outer loop of is_match over the occurrences: Some(found), or None where
\* a group's unwrap() panicked.
RECURSIVE found_loop(_, _, _, _, _)
found_loop(ms, s, ocurrence, ngroups, found) ==
  IF ocurrence >= Len(ms) THEN Some(found)
  ELSE LET g == matched_groups(ms[ocurrence + 1].caps, s, 0, ngroups, EmptyMap)
       IN  IF IsSome(g)
           THEN found_loop(ms, s, ocurrence + 1, ngroups,
                           Insert(found, ocurrence, Unwrap(g)))
           ELSE None

\* Recording that adds the new occurrences to the ones already stored.
store_found_merge(old, found) == found @@ old

\* self.match_list = found
store_found(old, found) == found

\* A result that asks for some captured text that is not empty.
has_matches_nonempty_text(match_list) ==
  \E k \in DOMAIN match_list : \E g \in DOMAIN match_list[k] :
    Len(match_list[k][g]) > 0

\* self.match_list.len() > 0
has_matches(match_list) == MapLen(match_list) > 0

\* The loops of is_match (lines 87-99) on a search string, per compiled
\* pattern: evaluated once for each search string an entry can have.
SearchStrs ==
  UNION {{as_os_str(q, 1, <<>>) : q \in {p, Cwd \o p}} \cup
         {file_name(p)[k] : k \in DOMAIN file_name(p)} : p \in Paths \cup PairPaths}

Found ==
  [s \in SearchStrs, i \in DOMAIN Regexes |->
     found_loop(captures_iter(Regexes[i], s), s, 0, Regexes[i].groups, EmptyMap)]

is_match(d, pattern, search_full_path, cwdOk) ==
  LET search_str == get_search_str(d, search_full_path, cwdOk)
  IN  IF ~IsSome(search_str)
      THEN [panicked |-> TRUE, entry |-> d, val |-> FALSE]
      ELSE LET search_res == osstr_to_bytes(Unwrap(search_str))
               found == Found[search_res, pattern]
           IN  IF ~IsSome(found)
               THEN [panicked |-> TRUE, entry |-> d, val |-> FALSE]
               ELSE LET m == store_found(d.match_list, Unwrap(found))
                    IN  [panicked |-> FALSE,
                         entry |-> [d EXCEPT !.match_list = m],
                         val |-> has_matches(m)]

\* Path's PartialEq: the same components, one by one.
PathEq(p, q) ==
  /\ Len(p) = Len(q)
  /\ \A i \in 1..Len(p) :
       /\ p[i].kind = q[i].kind
       /\ p[i].kind = "Normal" => p[i].name = q[i].name

\* Equality as a derived implementation would give it: field by field.
eq_derived(a, b) ==
  PathEq(path(a), path(b)) /\ a.inner.variant = b.inner.variant

eq(a, b) == PathEq(path(a), path(b))
partial_cmp(a, b) == Some(CmpPath(path(a), path(b), 1))
cmp(a, b) == CmpPath(path(a), path(b), 1)

(* ---------------------------------------------------------------------- *)
(* The program: two entries built from the walker's output, and the calls  *)
(* a consumer makes on them.                                               *)
(* ---------------------------------------------------------------------- *)
VARIABLES
  entries,   \* the live DirEntry values, by name
  lookups,   \* per entry, the filesystem metadata lookups executed so far
  ret,       \* the last call: operation, receiver, arguments, outcome, value
  pc         \* "running", or "aborted" once a call has panicked

vars == <<entries, lookups, ret, pc>>

\* The same variables, the last call's name, receiver, outcome and arguments
\* first: a step changes this tuple exactly when it changes vars.
calls == <<ret.op, ret.self, ret.outcome, ret.args, vars>>

EntryIds == {"a", "b"}

Constructed ==
  {normal(e) : e \in WalkerEntries} \cup {broken_symlink(p) : p \in Paths}

Returned(op, x, args, val) ==
  [op |-> op, self |-> x, args |-> args, outcome |-> "returned", val |-> val]

Panicked(op, x, args) ==
  [op |-> op, self |-> x, args |-> args, outcome |-> "panicked", val |-> <<>>]

Fresh(ids, built) ==
  /\ entries \in [ids -> built]
  /\ lookups = [x \in ids |-> <<>>]
  /\ ret = Returned("new", "a", <<>>, <<>>)
  /\ pc = "running"

\* One entry, built either way from any walker output.
Init == Fresh({"a"}, Constructed)

\* Two entries to compare, built either way from x or w/x (the paths differ in
\* length and in their first name).
ConstructedPair ==
  {normal([path |-> p, depth |-> 0, ty |-> None]) : p \in PairPaths}
    \cup {broken_symlink(p) : p \in PairPaths}

InitPair == Fresh(EntryIds, ConstructedPair)

Live(x) == pc = "running" /\ x \in DOMAIN entries

Path(x) ==
  /\ Live(x)
  /\ ret' = Returned("path", x, <<>>, path(entries[x]))
  /\ UNCHANGED <<entries, lookups, pc>>

Matches(x) ==
  /\ Live(x)
  /\ ret' = Returned("matches", x, <<>>, matches(entries[x]))
  /\ UNCHANGED <<entries, lookups, pc>>

\* into_path consumes the entry.
IntoPath(x) ==
  /\ Live(x)
  /\ ret' = Returned("into_path", x, <<>>, path(entries[x]))
  /\ entries' = [y \in DOMAIN entries \ {x} |-> entries[y]]
  /\ lookups' = [y \in DOMAIN lookups \ {x} |-> lookups[y]]
  /\ UNCHANGED pc

FileType(x) ==
  /\ Live(x)
  /\ \E looked_up \in LookupResults :
       LET r == file_type(entries[x], looked_up)
       IN  /\ entries' = [entries EXCEPT ![x] = r.entry]
           /\ lookups' = [lookups EXCEPT ![x] = @ \o r.lookups]
           /\ ret' = Returned("file_type", x, <<>>, r.val)
  /\ UNCHANGED pc

Metadata(x) ==
  /\ Live(x)
  /\ \E looked_up \in LookupResults :
       LET r == metadata(entries[x], looked_up)
       IN  /\ entries' = [entries EXCEPT ![x] = r.entry]
           /\ lookups' = [lookups EXCEPT ![x] = @ \o r.lookups]
           /\ ret' = Returned("metadata", x, <<>>, r.val)
  /\ UNCHANGED pc

Depth(x) ==
  /\ Live(x)
  /\ ret' = Returned("depth", x, <<>>, depth(entries[x]))
  /\ UNCHANGED <<entries, lookups, pc>>

IsMatch(x) ==
  /\ Live(x)
  /\ \E i \in DOMAIN Regexes, search_full_path \in BOOLEAN, cwdOk \in BOOLEAN :
       LET r == is_match(entries[x], i, search_full_path, cwdOk)
       IN  /\ entries' = [entries EXCEPT ![x] = r.entry]
           /\ IF r.panicked
              THEN /\ ret' = Panicked("is_match", x, <<i, search_full_path>>)
                   /\ pc' = "aborted"
              ELSE /\ ret' = Returned("is_match", x, <<i, search_full_path>>, r.val)
                   /\ pc' = pc
  /\ UNCHANGED lookups

Eq(x, y) ==
  /\ Live(x) /\ Live(y)
  /\ ret' = Returned("eq", x, <<y>>, eq(entries[x], entries[y]))
  /\ UNCHANGED <<entries, lookups, pc>>

PartialCmp(x, y) ==
  /\ Live(x) /\ Live(y)
  /\ ret' = Returned("partial_cmp", x, <<y>>, partial_cmp(entries[x], entries[y]))
  /\ UNCHANGED <<entries, lookups, pc>>

Cmp(x, y) ==
  /\ Live(x) /\ Live(y)
  /\ ret' = Returned("cmp", x, <<y>>, cmp(entries[x], entries[y]))
  /\ UNCHANGED <<entries, lookups, pc>>

Next ==
  \E x \in EntryIds :
    \/ Path(x)
    \/ Matches(x)
    \/ IntoPath(x)
    \/ FileType(x)
    \/ Metadata(x)
    \/ Depth(x)
    \/ IsMatch(x)
    \/ \E y \in EntryIds : Eq(x, y)
    \/ \E y \in EntryIds : PartialCmp(x, y)
    \/ \E y \in EntryIds : Cmp(x, y)

Spec == Init /\ [][Next]_vars

SpecPair == InitPair /\ [][Next]_vars

(* ---------------------------------------------------------------------- *)
(* What the properties below refer to.                                     *)
(* ---------------------------------------------------------------------- *)
Both == DOMAIN entries \cap DOMAIN entries'

Variant(x) == entries[x].inner.variant
Cell(x) == entries[x].metadata
Stored(x) == entries[x].match_list

IsCall(r, op) == r.op = op
ReturnedFrom(r, op) == r.op = op /\ r.outcome = "returned"

\* The string a returning is_match call searched.
SearchStrOf(p, search_full_path) ==
  IF search_full_path
  THEN as_os_str(IF is_absolute(p) THEN p ELSE Cwd \o p, 1, <<>>)
  ELSE Unwrap(file_name(p))

\* The occurrences of a pattern in a string and, per occurrence, the text of
\* exactly the groups that took part in it.
Occurrences ==
  [s \in SearchStrs, i \in DOMAIN Regexes |-> captures_iter(Regexes[i], s)]

GroupText(s, m, g) == Slice(s, Unwrap(m.caps[g])[1], Unwrap(m.caps[g])[2])

Expected ==
  [s \in SearchStrs, i \in DOMAIN Regexes |->
     LET ms == Occurrences[s, i]
     IN  [k \in 0..(Len(ms) - 1) |->
            [g \in {h \in 0..(Regexes[i].groups - 1) : IsSome(ms[k + 1].caps[h])} |->
               GroupText(s, ms[k + 1], g)]]]

\* The number of capture fragments a match list holds.
RECURSIVE SumOver(_, _)
SumOver(m, keys) ==
  IF keys = {} THEN 0
  ELSE LET k == CHOOSE j \in keys : TRUE
       IN  MapLen(m[k]) + SumOver(m, keys \ {k})

Fragments(m) == SumOver(m, DOMAIN m)

ReportTxt == Lit(<<"r", "e", "p", "o", "r", "t", ".", "t", "x", "t">>)
ReportMd == Lit(<<"r", "e", "p", "o", "r", "t", ".", "m", "d">>)
Report == Lit(<<"r", "e", "p", "o", "r", "t">>)

(* ---------------------------------------------------------------------- *)
(* C1. The filesystem metadata lookup of an entry is executed at most      *)
(* once: the cache is unevaluated exactly while no lookup has run, it then *)
(* holds the outcome of the first lookup (the metadata, or None when the   *)
(* lookup failed) for good, and every metadata() call returns that first   *)
(* outcome; a failed lookup is not retried.                                *)
(* ---------------------------------------------------------------------- *)
C1_LookupAtMostOnce ==
  /\ \A x \in DOMAIN entries :
       /\ Len(lookups[x]) <= 1
       /\ (Cell(x) = <<>>) <=> (lookups[x] = <<>>)
       /\ Cell(x) # <<>> => Cell(x) = <<lookups[x][1].result>>
  /\ ReturnedFrom(ret, "metadata") => ret.val = lookups[ret.self][1].result

\* A metadata() call has returned the cached failure of the one lookup, on an
\* entry that was also matched.
C1_Witness ==
  /\ ReturnedFrom(ret, "metadata")
  /\ ret.val = None
  /\ Cell(ret.self) = <<None>>
  /\ Len(lookups[ret.self]) = 1
  /\ Stored(ret.self) # EmptyMap

(* ---------------------------------------------------------------------- *)
(* C2. The stored match data is empty at construction and changes only by  *)
(* an is_match call that returns; after such a call it is exactly the      *)
(* result of that call alone (the occurrences of its pattern in its search *)
(* string), whatever was stored before, and empty when the call found no   *)
(* occurrence.                                                             *)
(* ---------------------------------------------------------------------- *)
C2_LastCallOnly ==
  /\ (IsCall(ret, "new") => \A x \in DOMAIN entries : Stored(x) = EmptyMap)
  /\ [][\A x \in Both :
          IF ReturnedFrom(ret', "is_match") /\ ret'.self = x
          THEN entries'[x].match_list =
                 Expected[SearchStrOf(path(entries[x]), ret'.args[2]), ret'.args[1]]
          ELSE entries'[x].match_list = entries[x].match_list]_calls

\* An is_match call found no occurrence and returned, the entry's metadata
\* being cached: the stored match data is empty.
C2_Witness ==
  /\ ReturnedFrom(ret, "is_match")
  /\ ret.val = FALSE
  /\ Stored(ret.self) = EmptyMap
  /\ Cell(ret.self) # <<>>
  /\ IsSome(file_name(path(entries[ret.self])))

(* ---------------------------------------------------------------------- *)
(* C3. is_match returns true exactly when at least one occurrence stored   *)
(* at least one capture fragment, which is exactly when the pattern occurs *)
(* in the search string (every occurrence stores its whole match, be its   *)
(* text empty or not); with no occurrence it returns false.                *)
(* ---------------------------------------------------------------------- *)
C3_TrueIffFragment ==
  ReturnedFrom(ret, "is_match") =>
    LET m == Stored(ret.self)
        s == SearchStrOf(path(entries[ret.self]), ret.args[2])
    IN  /\ ret.val = (\E k \in DOMAIN m : DOMAIN m[k] # {})
        /\ ret.val = (Fragments(m) > 0)
        /\ ret.val = (Len(Occurrences[s, ret.args[1]]) > 0)

\* is_match returned true on occurrences whose only fragment is the empty
\* whole match.
C3_Witness ==
  /\ ReturnedFrom(ret, "is_match")
  /\ ret.val = TRUE
  /\ \A k \in DOMAIN Stored(ret.self) :
       \A g \in DOMAIN Stored(ret.self)[k] : Stored(ret.self)[k][g] = <<>>

(* ---------------------------------------------------------------------- *)
(* C4. For entries a and b, a == b holds iff their paths are the same, and *)
(* cmp(a, b) is the comparison of their paths, Equal exactly when a == b   *)
(* (partial_cmp gives the same); the variants, the metadata caches and the *)
(* stored match data play no part, and no call changes either result.      *)
(* ---------------------------------------------------------------------- *)
SamePath(x, y) == path(entries[x]) = path(entries[y])

C4_Results ==
  /\ ReturnedFrom(ret, "eq") => ret.val = SamePath(ret.self, ret.args[1])
  /\ ReturnedFrom(ret, "cmp") =>
       /\ ret.val = CmpPath(path(entries[ret.self]), path(entries[ret.args[1]]), 1)
       /\ (ret.val = "Equal") = SamePath(ret.self, ret.args[1])
       /\ (ret.val = "Equal") = eq(entries[ret.self], entries[ret.args[1]])
  /\ ReturnedFrom(ret, "partial_cmp") =>
       /\ IsSome(ret.val)
       /\ (Unwrap(ret.val) = "Equal") = SamePath(ret.self, ret.args[1])
       /\ Unwrap(ret.val) = cmp(entries[ret.self], entries[ret.args[1]])

C4_ByPathOnly ==
  [][/\ C4_Results'
     /\ \A x \in Both : \A y \in Both :
          (entries'[x] # entries[x] \/ entries'[y] # entries[y]) =>
          /\ eq(entries'[x], entries'[y]) = eq(entries[x], entries[y])
          /\ cmp(entries'[x], entries'[y]) = cmp(entries[x], entries[y])]_calls

\* Two entries of different variants, with different metadata caches and
\* different stored match data, compared equal.
C4_Witness ==
  /\ ReturnedFrom(ret, "eq")
  /\ ret.val = TRUE
  /\ ret.self # ret.args[1]
  /\ Variant(ret.self) # Variant(ret.args[1])
  /\ Cell(ret.self) # Cell(ret.args[1])
  /\ Stored(ret.self) # Stored(ret.args[1])

\* A returned file-name search for (\w+)\.txt on an entry with this file name.
IsReportCall(name) ==
  /\ ReturnedFrom(ret, "is_match")
  /\ ret.args = <<1, FALSE>>
  /\ file_name(path(entries[ret.self])) = Some(name)

ReportMdUnmatched ==
  IsReportCall(ReportMd) => ret.val = FALSE /\ Stored(ret.self) = EmptyMap

(* ---------------------------------------------------------------------- *)
(* C5. Pattern (\w+)\.txt, file-name search.  As claimed: on the file name *)
(* "report.txt" is_match returns true and exactly one capture fragment is  *)
(* stored, "report"; on "report.md" it returns false and nothing is        *)
(* stored.                                                                 *)
(* ---------------------------------------------------------------------- *)
C5_OneFragment ==
  /\ IsReportCall(ReportTxt) =>
       /\ ret.val = TRUE
       /\ Fragments(Stored(ret.self)) = 1
       /\ \E k \in DOMAIN Stored(ret.self) : \E g \in DOMAIN Stored(ret.self)[k] :
            Stored(ret.self)[k][g] = Report
  /\ ReportMdUnmatched

\* C5 as amended: on "report.txt" is_match returns true and one occurrence is
\* stored, holding two capture fragments: the whole match "report.txt" under
\* group 0 and the group's text "report" under group 1; on "report.md" it
\* returns false and nothing is stored.
C5_OneOccurrenceTwoFragments ==
  /\ IsReportCall(ReportTxt) =>
       /\ ret.val = TRUE
       /\ DOMAIN Stored(ret.self) = {0}
       /\ DOMAIN Stored(ret.self)[0] = {0, 1}
       /\ Stored(ret.self)[0][0] = ReportTxt
       /\ Stored(ret.self)[0][1] = Report
       /\ Fragments(Stored(ret.self)) = 2
  /\ ReportMdUnmatched

\* The file name "report.txt" was matched by (\w+)\.txt.
C5_Witness == IsReportCall(ReportTxt) /\ Stored(ret.self) # EmptyMap

(* ---------------------------------------------------------------------- *)
(* C6. file_type() on a walked entry returns the walker's type and leaves  *)
(* the entry, its metadata cache included, and the lookups as they were.   *)
(* On a broken symlink it runs the non-following lookup exactly when the   *)
(* cache is unevaluated, returns the type of the cached metadata, nothing  *)
(* when the cached outcome is a failed lookup, and the metadata() call     *)
(* that follows runs no lookup.                                            *)
(* ---------------------------------------------------------------------- *)
C6_FileType ==
  [][\A x \in Both :
       /\ (IsCall(ret', "file_type") /\ ret'.self = x) =>
            IF Variant(x) = "Normal"
            THEN /\ ret'.val = entries[x].inner.payload.ty
                 /\ entries'[x] = entries[x]
                 /\ lookups'[x] = lookups[x]
            ELSE /\ IF Cell(x) = <<>>
                    THEN /\ Len(lookups'[x]) = Len(lookups[x]) + 1
                         /\ lookups'[x][Len(lookups'[x])].how = "symlink_metadata"
                         /\ entries'[x].metadata =
                              <<lookups'[x][Len(lookups'[x])].result>>
                    ELSE /\ lookups'[x] = lookups[x]
                         /\ entries'[x].metadata = Cell(x)
                 /\ ret'.val = IF entries'[x].metadata = <<None>> THEN None
                               ELSE Some(entries'[x].metadata[1][1].file_type)
       /\ (IsCall(ret', "metadata") /\ ret'.self = x /\ IsCall(ret, "file_type")
             /\ ret.self = x /\ Variant(x) = "BrokenSymlink") =>
            /\ lookups'[x] = lookups[x]
            /\ entries'[x].metadata = Cell(x)]_calls

\* file_type() on a walked entry returned the walker's type, the cache still
\* unevaluated although the entry was matched.
C6_Witness ==
  /\ IsCall(ret, "file_type")
  /\ Variant(ret.self) = "Normal"
  /\ ret.val = Some("file")
  /\ Cell(ret.self) = <<>>
  /\ Stored(ret.self) # EmptyMap

(* ---------------------------------------------------------------------- *)
(* C7. is_match with file-name search on an entry whose path has no final  *)
(* component (a root, a path ending in "..") does not return: the program  *)
(* aborts, and the entry, its stored match data included, is what it was   *)
(* before the call.                                                        *)
(* ---------------------------------------------------------------------- *)
C7_NoFileNameAborts ==
  [][\A x \in Both :
       (IsCall(ret', "is_match") /\ ret'.self = x /\ ret'.args[2] = FALSE
          /\ file_name(path(entries[x])) = None) =>
         /\ ret'.outcome = "panicked"
         /\ pc' = "aborted"
         /\ entries'[x] = entries[x]]_calls

\* The program aborted in a file-name search on a path ending in "..", the
\* entry still holding what an earlier call stored.
C7_Witness ==
  /\ pc = "aborted"
  /\ IsCall(ret, "is_match")
  /\ ret.args[2] = FALSE
  /\ file_name(path(entries[ret.self])) = None
  /\ Len(path(entries[ret.self])) > 1
  /\ Stored(ret.self) # EmptyMap

(* ---------------------------------------------------------------------- *)
(* C8. In every step an entry keeps its variant, what the walker gave it,  *)
(* its path() and its depth(); depth() returns nothing for a broken        *)
(* symlink and the walker's depth for a walked entry; the metadata cache   *)
(* changes only from unevaluated, in a metadata() or file_type() call on   *)
(* that entry, and the lookups only then; is_match runs no lookup and      *)
(* leaves the cache alone; the stored match data changes only in an        *)
(* is_match call on that entry.                                            *)
(* ---------------------------------------------------------------------- *)
C8_Frame ==
  [][\A x \in Both :
       /\ entries'[x].inner = entries[x].inner
       /\ path(entries'[x]) = path(entries[x])
       /\ depth(entries'[x]) = depth(entries[x])
       /\ (IsCall(ret', "depth") /\ ret'.self = x) =>
            ret'.val = IF Variant(x) = "Normal"
                       THEN Some(entries[x].inner.payload.depth) ELSE None
       /\ (IsCall(ret', "path") /\ ret'.self = x) =>
            ret'.val = (IF Variant(x) = "Normal" THEN entries[x].inner.payload.path
                        ELSE entries[x].inner.payload)
       /\ (entries'[x].metadata # Cell(x) \/ lookups'[x] # lookups[x]) =>
            /\ Cell(x) = <<>>
            /\ ret'.op \in {"metadata", "file_type"}
            /\ ret'.self = x
       /\ entries'[x].match_list # Stored(x) =>
            /\ IsCall(ret', "is_match")
            /\ ret'.self = x]_calls

\* depth() returned nothing on a broken symlink whose metadata is cached and
\* that holds match data.
C8_Witness ==
  /\ IsCall(ret, "depth")
  /\ Variant(ret.self) = "BrokenSymlink"
  /\ ret.val = None
  /\ Cell(ret.self) # <<>>
  /\ Stored(ret.self) # EmptyMap

(* ---------------------------------------------------------------------- *)
(* C9. After is_match returns, the stored match data has one entry per     *)
(* non-overlapping occurrence of the pattern, numbered 0..n-1 from left to *)
(* right; the entry of an occurrence has a key for exactly the groups that *)
(* took part in it, each with the text the group matched, so group 0 is in *)
(* every occurrence and a group that took no part has no key.              *)
(* ---------------------------------------------------------------------- *)
C9_OccurrencesAndGroups ==
  ReturnedFrom(ret, "is_match") =>
    LET s == SearchStrOf(path(entries[ret.self]), ret.args[2])
        re == Regexes[ret.args[1]]
        ms == Occurrences[s, ret.args[1]]
        m == Stored(ret.self)
    IN  /\ DOMAIN m = 0..(Len(ms) - 1)
        /\ \A k \in DOMAIN m :
             /\ 0 \in DOMAIN m[k]
             /\ DOMAIN m[k] = {g \in 0..(re.groups - 1) : IsSome(ms[k + 1].caps[g])}
             /\ \A g \in DOMAIN m[k] : m[k][g] = GroupText(s, ms[k + 1], g)
             /\ m[k][0] = Slice(s, ms[k + 1].start, ms[k + 1].end)
             /\ k > 0 => ms[k].end <= ms[k + 1].start
        /\ (ret.args[1] = 2 /\ s = Lit(<<"a", "1", "2", " ", "b", "3", "4">>)) =>
             m = (0 :> (0 :> Lit(<<"1", "2">>)) @@ 1 :> (0 :> Lit(<<"3", "4">>)))

\* a(b)?c was matched twice: the first occurrence has no key for group 1, the
\* second has one.
C9_Witness ==
  /\ ReturnedFrom(ret, "is_match")
  /\ ret.args[1] = 3
  /\ DOMAIN Stored(ret.self) = {0, 1}
  /\ DOMAIN Stored(ret.self)[0] = {0}
  /\ DOMAIN Stored(ret.self)[1] = {0, 1}
  /\ Stored(ret.self)[1][1] = Lit(<<"b">>)

(* ---------------------------------------------------------------------- *)
(* C10. When a group that took part in some occurrence matched bytes that  *)
(* are not valid UTF-8, is_match does not return: the program aborts and   *)
(* the entry holds what it held before the call, nothing of this call;     *)
(* and a call that returns stored only valid text, byte for byte what the  *)
(* groups matched.                                                         *)
(* ---------------------------------------------------------------------- *)
Undecodable ==
  [s \in SearchStrs, i \in DOMAIN Regexes |->
     \E k \in DOMAIN Occurrences[s, i] :
       \E g \in 0..(Regexes[i].groups - 1) :
         /\ IsSome(Occurrences[s, i][k].caps[g])
         /\ ~ValidUtf8From(GroupText(s, Occurrences[s, i][k], g), 1)]

====
